---- MODULE Spec2Model ----
(***************************************************************************)
(* pstate_update: a daemon that writes the Energy Performance Preference   *)
(* (EPP) and the scaling governor of every cpufreq policy whenever the     *)
(* ActiveProfile property of power-profiles-daemon changes.                *)
(*                                                                         *)
(* The model follows src/src/main.rs: main's startup (locator, governor    *)
(* path derivation, configuration), the supervisor loop, one controller    *)
(* session (run) and the processing of one profile value, file by file.    *)
(* The environment (directory listing, configuration files, bus replies,   *)
(* outcome of every file write) is chosen nondeterministically.            *)
(***************************************************************************)
EXTENDS Integers, Sequences, FiniteSets, TLC

VARIABLES
    pc,              \* position of the single thread in main / run / process
    cpufreq,         \* environment: the cpufreq directory as read_dir sees it
    content,         \* environment: content of every sysfs tunable file
    epp_files,       \* main's epp_files, then EPPController.epp_core_files
    governor_files,  \* main's governor_files, then governor_core_files
    configText,      \* the configuration text read_config read (<<>> if none)
    config,          \* the result of read_config (<<>> before it is called)
    sessions,        \* number of calls of controller.run() so far
    queried,         \* whether the ActiveProfile property was ever queried
    nEvents,         \* number of change notifications delivered so far
    phase,           \* caller of process_active_profile_changed: "initial" / "listen"
    val,             \* the value last handed to process_active_profile_changed
    profile,         \* the most recent successfully parsed profile (<<>> if none)
    idx,             \* loop index of the fan-out in progress
    attempts,        \* write attempts of the most recent fan-out, in order
    failures,        \* number of file writes that failed so far
    absorbed,        \* whether this session logged a value it could not parse
    processResult,   \* what process_active_profile_changed returned for val
    runResult,       \* result of the run() that returned last
    exitStatus,      \* <<>> while running, <<code>> once the process has exited
    exitCause,       \* what the process logged when exiting
    parse            \* scratch record of the parsing specification

vars == <<pc, cpufreq, content, epp_files, governor_files, configText, config,
          sessions, queried, nEvents, phase, val, profile, idx, attempts,
          failures, absorbed, processResult, runResult, exitStatus, exitCause,
          parse>>

---------------------------------------------------------------------------
(* Bounds of the model. *)

\* longest directory listing
MaxEntries == 3
\* change notifications delivered over the whole run
MaxEvents == 2
\* calls of controller.run()
MaxSessions == 2
\* file writes that fail over the whole run
MaxFailures == 2

---------------------------------------------------------------------------
(* Option and Result values. *)

None == <<>>
Some(x) == <<x>>
Ok(x) == <<"Ok", x>>
Err(e) == <<"Err", e>>
ParseErr(input) == <<"Err", "Could not parse", input>>
IsOk(r) == r[1] = "Ok"
IsErr(r) == r[1] = "Err"

---------------------------------------------------------------------------
(* The three closed vocabularies and their string conversions. *)

PPDPowerProfile == {"PowerSaver", "Balanced", "Performance"}

EnergyPerformancePreference ==
    {"Default", "Performance", "BalancePerformance", "BalancePower", "Power"}

ScalingGovernor == {"PowerSave", "Performance"}

\* Faulty variant of PPDPowerProfile_from_str: an unknown string is taken
\* for the balanced profile.
PPDPowerProfile_from_str_Defaulting(input) ==
    CASE input = "power-saver" -> Ok("PowerSaver")
      [] input = "balanced"    -> Ok("Balanced")
      [] input = "performance" -> Ok("Performance")
      [] OTHER                 -> Ok("Balanced")

PPDPowerProfile_from_str(input) ==
    CASE input = "power-saver" -> Ok("PowerSaver")
      [] input = "balanced"    -> Ok("Balanced")
      [] input = "performance" -> Ok("Performance")
      [] OTHER                 -> ParseErr(input)

\* Faulty variant of PPDPowerProfile_to_string: PowerSaver is printed as the
\* configuration key is spelled.
PPDPowerProfile_to_string_Underscore(p) ==
    CASE p = "PowerSaver"  -> "power_saver"
      [] p = "Balanced"    -> "balanced"
      [] p = "Performance" -> "performance"

PPDPowerProfile_to_string(p) ==
    CASE p = "PowerSaver"  -> "power-saver"
      [] p = "Balanced"    -> "balanced"
      [] p = "Performance" -> "performance"

EPP_to_string(e) ==
    CASE e = "Default"            -> "default"
      [] e = "Performance"        -> "performance"
      [] e = "BalancePerformance" -> "balance_performance"
      [] e = "BalancePower"       -> "balance_power"
      [] e = "Power"              -> "power"

EPP_from_str(input) ==
    CASE input = "default"             -> Ok("Default")
      [] input = "performance"         -> Ok("Performance")
      [] input = "balance_performance" -> Ok("BalancePerformance")
      [] input = "balance_power"       -> Ok("BalancePower")
      [] input = "power"               -> Ok("Power")
      [] OTHER                         -> ParseErr(input)

ScalingGovernor_to_string(g) ==
    CASE g = "Performance" -> "performance"
      [] g = "PowerSave"   -> "powersave"

\* Faulty variant of ScalingGovernor_from_str: an unknown string falls back
\* to PowerSave.
ScalingGovernor_from_str_Defaulting(input) ==
    CASE input = "powersave"   -> Ok("PowerSave")
      [] input = "performance" -> Ok("Performance")
      [] OTHER                 -> Ok("PowerSave")

ScalingGovernor_from_str(input) ==
    CASE input = "powersave"   -> Ok("PowerSave")
      [] input = "performance" -> Ok("Performance")
      [] OTHER                 -> ParseErr(input)

---------------------------------------------------------------------------
(* Paths and the sysfs directory.  A file name is a sequence of bytes, each *)
(* written as a one-character string; InvalidByte stands for a byte that is *)
(* not valid UTF-8.  A path is the sequence of its components below the     *)
(* cpufreq directory.                                                       *)

InvalidByte == "0xFF"

Policy == <<"p", "o", "l", "i", "c", "y">>

EPPFileName == "energy_performance_preference"
GovernorFileName == "scaling_governor"

Policy0 == Policy \o <<"0">>
Policy1 == Policy \o <<"1">>
Policy2 == Policy \o <<"2">>
Policy3 == Policy \o <<"3">>
Other == <<"o", "t", "h", "e", "r">>
NotText == Policy \o <<InvalidByte>>

\* The directories that may appear below cpufreq.
DirNames == {Policy0, Policy1, Policy2, Policy3, Other, NotText}

\* The tunable files each of these directories holds: policy1 has no EPP
\* file, policy2 has no governor file.
SysfsFiles ==
    {<<Policy0, EPPFileName>>, <<Policy0, GovernorFileName>>,
     <<Policy1, GovernorFileName>>,
     <<Policy2, EPPFileName>>,
     <<Policy3, EPPFileName>>, <<Policy3, GovernorFileName>>,
     <<Other, EPPFileName>>, <<Other, GovernorFileName>>,
     <<NotText, EPPFileName>>, <<NotText, GovernorFileName>>}

\* What a file holds before the daemon writes it.
InitialContent(f) ==
    IF f[2] = EPPFileName THEN "balance_performance" ELSE "schedutil"

\* One item of the read_dir iterator: an entry or an I/O error.
DirEntries == {Ok(n) : n \in DirNames} \cup {Err("io")}

RECURSIVE SeqsUpTo(_, _)
SeqsUpTo(S, n) ==
    IF n = 0 THEN {<<>>}
    ELSE LET shorter == SeqsUpTo(S, n - 1)
         IN shorter \cup {Append(q, x) : q \in shorter, x \in S}

\* A directory never lists the same name twice.
DistinctNames(entries) ==
    \A i, j \in DOMAIN entries :
        (i # j /\ IsOk(entries[i]) /\ IsOk(entries[j])) => entries[i] # entries[j]

Listings == {q \in SeqsUpTo(DirEntries, MaxEntries) : DistinctNames(q)}

\* Path::file_name: the last component, if any.
file_name(p) == IF Len(p) = 0 THEN None ELSE Some(p[Len(p)])

\* OsStr::to_str: the text, if every byte is valid.
to_str(os) ==
    IF \E i \in DOMAIN os : os[i] = InvalidByte THEN None ELSE Some(os)

\* str::starts_with
starts_with(s, prefix) ==
    /\ Len(s) >= Len(prefix)
    /\ SubSeq(s, 1, Len(prefix)) = prefix

\* Path::join
join(p, name) == Append(p, name)

\* Path::with_file_name
with_file_name(p, name) == Append(SubSeq(p, 1, Len(p) - 1), name)

\* Path::exists: the file is one its directory holds, and the directory is there.
exists(p) ==
    /\ p \in SysfsFiles
    /\ \E i \in DOMAIN cpufreq.entries : cpufreq.entries[i] = Ok(p[1])

\* Faulty variant of EppFileOfEntry: the test of the `policy` prefix is left out.
EppFileOfEntry_AnyName(p) ==
    LET f == file_name(p) IN
    IF f = None THEN None
    ELSE LET s == to_str(f[1]) IN
         IF s = None THEN None
         ELSE LET epp_file == join(p, EPPFileName) IN
              IF ~exists(epp_file) THEN None ELSE Some(epp_file)

\* The body of the loop of find_cpu_core_epp_paths for one readable entry:
\* Some(path) when the entry contributes an EPP file, None when it is skipped.
EppFileOfEntry(p) ==
    LET f == file_name(p) IN
    IF f = None THEN None
    ELSE LET s == to_str(f[1]) IN
         IF s = None THEN None
         ELSE IF ~starts_with(s[1], Policy) THEN None
         ELSE LET epp_file == join(p, EPPFileName) IN
              IF ~exists(epp_file) THEN None ELSE Some(epp_file)

\* The loop of find_cpu_core_epp_paths from entry i on; an entry that is an
\* error makes `expect` panic.
RECURSIVE ScanEntries(_, _, _)
ScanEntries(entries, i, paths) ==
    IF i > Len(entries) THEN Ok(paths)
    ELSE IF IsErr(entries[i])
         THEN <<"Panic", "any path from read_dir should be Ok">>
         ELSE LET found == EppFileOfEntry(<<entries[i][2]>>) IN
              ScanEntries(entries, i + 1, paths \o found)

find_cpu_core_epp_paths(dir) ==
    IF ~dir.readable THEN Err("read_dir") ELSE ScanEntries(dir.entries, 1, <<>>)

\* Faulty variant of GovernorFileOfEpp: the sibling is taken without the
\* test that it exists.
GovernorFileOfEpp_NoExistsCheck(epp) ==
    Some(with_file_name(epp, GovernorFileName))

\* The body of the loop of generate_cpu_core_gorvernor_paths for one EPP path.
GovernorFileOfEpp(epp) ==
    LET p == with_file_name(epp, GovernorFileName) IN
    IF ~exists(p) THEN None ELSE Some(p)

RECURSIVE generate_cpu_core_gorvernor_paths(_)
generate_cpu_core_gorvernor_paths(epp_paths) ==
    IF Len(epp_paths) = 0 THEN <<>>
    ELSE GovernorFileOfEpp(Head(epp_paths))
         \o generate_cpu_core_gorvernor_paths(Tail(epp_paths))

---------------------------------------------------------------------------
(* The configuration.  A configuration text is modelled by what the TOML    *)
(* parser sees: whether it is well-formed, and the token each table gives   *)
(* to each key it holds.                                                    *)

ProfileKeys == {"power_saver", "balanced", "performance"}

\* serde renames of EnergyPerformancePreference
DeserializeEPP(token) ==
    CASE token = "default"             -> Ok("Default")
      [] token = "performance"         -> Ok("Performance")
      [] token = "balance_performance" -> Ok("BalancePerformance")
      [] token = "balance_power"       -> Ok("BalancePower")
      [] token = "power"               -> Ok("Power")
      [] OTHER                         -> Err("unknown variant")

\* serde renames of ScalingGovernor
DeserializeGovernor(token) ==
    CASE token = "powersave"   -> Ok("PowerSave")
      [] token = "performance" -> Ok("Performance")
      [] OTHER                 -> Err("unknown variant")

TextA ==
    [wellformed |-> TRUE,
     epp |-> [power_saver |-> "power", balanced |-> "balance_power",
              performance |-> "performance"],
     scaling_governor |-> [power_saver |-> "powersave", balanced |-> "powersave",
                           performance |-> "performance"]]

TextB ==
    [wellformed |-> TRUE,
     epp |-> [power_saver |-> "balance_power", balanced |-> "default",
              performance |-> "balance_performance"],
     scaling_governor |-> [power_saver |-> "powersave", balanced |-> "performance",
                           performance |-> "performance"]]

TextUnknownToken == [TextA EXCEPT !.epp.balanced = "turbo"]

TextUnknownGovernor == [TextA EXCEPT !.scaling_governor.balanced = "schedutil"]

TextMissingKey ==
    [TextA EXCEPT !.scaling_governor =
        [power_saver |-> "powersave", performance |-> "performance"]]

TextGarbage == [TextA EXCEPT !.wellformed = FALSE]

ConfigTexts ==
    {TextA, TextB, TextUnknownToken, TextUnknownGovernor, TextMissingKey, TextGarbage}

\* A candidate configuration file: absent, present but unreadable, or readable.
Absent == [exists |-> FALSE, readable |-> FALSE, text |-> TextGarbage]
Unreadable == [exists |-> TRUE, readable |-> FALSE, text |-> TextGarbage]
Readable(t) == [exists |-> TRUE, readable |-> TRUE, text |-> t]

ConfigFileStates == {Absent, Unreadable} \cup {Readable(t) : t \in ConfigTexts}

\* toml::from_str::<Config>
toml_from_str(text) ==
    IF ~text.wellformed THEN Err("toml")
    ELSE IF \E k \in ProfileKeys :
                k \notin DOMAIN text.epp \/ k \notin DOMAIN text.scaling_governor
    THEN Err("missing field")
    ELSE IF \E k \in ProfileKeys :
                \/ IsErr(DeserializeEPP(text.epp[k]))
                \/ IsErr(DeserializeGovernor(text.scaling_governor[k]))
    THEN Err("unknown variant")
    ELSE Ok([epp |-> [k \in ProfileKeys |-> DeserializeEPP(text.epp[k])[2]],
             scaling_governor |->
                 [k \in ProfileKeys |->
                     DeserializeGovernor(text.scaling_governor[k])[2]]])

\* Which of the two candidate files read_config reads.
config_file(etc, local) == IF ~etc.exists THEN local ELSE etc

read_config(etc, local) ==
    LET f == config_file(etc, local) IN
    IF ~(f.exists /\ f.readable) THEN Err("read_to_string")
    ELSE toml_from_str(f.text)

---------------------------------------------------------------------------
(* The program. *)

\* Exit statuses: process::exit(1), and the status of a panicking Rust program.
ExitFailure == 1
PanicStatus == 101

\* The strings the bus may deliver as ActiveProfile.
BusValues == {"power-saver", "balanced", "performance", "unknown-value"}

Unit == "()"

\* Faulty variant of desired_epp: a built-in table instead of the
\* configuration.
desired_epp_Fixed(p) ==
    CASE p = "Performance" -> "Performance"
      [] p = "Balanced"    -> "BalancePerformance"
      [] p = "PowerSaver"  -> "Power"

\* desired_epp, lines 204-210
desired_epp(p) ==
    CASE p = "Performance" -> config[2].epp.performance
      [] p = "Balanced"    -> config[2].epp.balanced
      [] p = "PowerSaver"  -> config[2].epp.power_saver

\* Faulty variant of desired_governor: the arms of Balanced and PowerSaver
\* are exchanged.
desired_governor_Exchanged(p) ==
    CASE p = "Performance" -> config[2].scaling_governor.performance
      [] p = "Balanced"    -> config[2].scaling_governor.power_saver
      [] p = "PowerSaver"  -> config[2].scaling_governor.balanced

\* desired_governor, lines 213-219
desired_governor(p) ==
    CASE p = "Performance" -> config[2].scaling_governor.performance
      [] p = "Balanced"    -> config[2].scaling_governor.balanced
      [] p = "PowerSaver"  -> config[2].scaling_governor.power_saver

\* The machines the whole program is run on: the cpufreq directory cannot be
\* read, is empty, holds no usable policy, yields an unreadable entry, or
\* holds policies with and without a governor file.
Machines ==
    {[readable |-> FALSE, entries |-> <<>>],
     [readable |-> TRUE, entries |-> <<>>],
     [readable |-> TRUE, entries |-> <<Ok(Policy1), Ok(Other)>>],
     [readable |-> TRUE, entries |-> <<Ok(Policy0), Err("io")>>],
     [readable |-> TRUE, entries |-> <<Ok(Policy2)>>],
     [readable |-> TRUE, entries |-> <<Ok(Other), Ok(Policy0), Ok(Policy2), Ok(Policy3)>>]}

\* The state of the program when main starts, on the machine `dir`.
Start(dir) ==
    /\ pc = "main_find"
    /\ cpufreq = dir
    /\ content = [f \in SysfsFiles |-> InitialContent(f)]
    /\ epp_files = <<>>
    /\ governor_files = <<>>
    /\ configText = None
    /\ config = None
    /\ sessions = 0
    /\ queried = FALSE
    /\ nEvents = 0
    /\ phase = "none"
    /\ val = ""
    /\ profile = None
    /\ idx = 0
    /\ attempts = <<>>
    /\ failures = 0
    /\ absorbed = FALSE
    /\ processResult = None
    /\ runResult = None
    /\ exitStatus = None
    /\ exitCause = ""

Init ==
    /\ \E dir \in Machines : Start(dir)
    /\ parse = None

\* process::exit(code), or the abort of a panic
Exit(code, cause) ==
    /\ pc' = "exited"
    /\ exitStatus' = Some(code)
    /\ exitCause' = cause

\* Faulty variant of MainFindEppPaths: with no EPP file found main returns,
\* which ends the process with status 0.
MainFindEppPaths_Returning ==
    /\ pc = "main_find"
    /\ LET r == find_cpu_core_epp_paths(cpufreq) IN
       CASE r[1] = "Panic" ->
                Exit(PanicStatus, "panic") /\ UNCHANGED epp_files
         [] r[1] = "Err" ->
                Exit(ExitFailure, "read_dir") /\ UNCHANGED epp_files
         [] r[1] = "Ok" /\ Len(r[2]) = 0 ->
                Exit(0, "no_epp_files") /\ UNCHANGED epp_files
         [] OTHER ->
                /\ epp_files' = r[2]
                /\ pc' = "main_governors"
                /\ UNCHANGED <<exitStatus, exitCause>>
    /\ UNCHANGED <<cpufreq, content, governor_files, configText, config, sessions,
                   queried, nEvents, phase, val, profile, idx, attempts, failures,
                   absorbed, processResult, runResult, parse>>

\* main, lines 305-316: locate the EPP files; exit when the directory cannot
\* be read or no EPP file is found.
MainFindEppPaths ==
    /\ pc = "main_find"
    /\ LET r == find_cpu_core_epp_paths(cpufreq) IN
       CASE r[1] = "Panic" ->
                Exit(PanicStatus, "panic") /\ UNCHANGED epp_files
         [] r[1] = "Err" ->
                Exit(ExitFailure, "read_dir") /\ UNCHANGED epp_files
         [] r[1] = "Ok" /\ Len(r[2]) = 0 ->
                Exit(ExitFailure, "no_epp_files") /\ UNCHANGED epp_files
         [] OTHER ->
                /\ epp_files' = r[2]
                /\ pc' = "main_governors"
                /\ UNCHANGED <<exitStatus, exitCause>>
    /\ UNCHANGED <<cpufreq, content, governor_files, configText, config, sessions,
                   queried, nEvents, phase, val, profile, idx, attempts, failures,
                   absorbed, processResult, runResult, parse>>

\* Faulty variant of MainGovernorPaths: the emptiness test reads
\* governor_files, as its message says.
MainGovernorPaths_CheckingGovernors ==
    /\ pc = "main_governors"
    /\ governor_files' = generate_cpu_core_gorvernor_paths(epp_files)
    /\ IF Len(governor_files') = 0
       THEN Exit(ExitFailure, "no_governor_files")
       ELSE pc' = "main_config" /\ UNCHANGED <<exitStatus, exitCause>>
    /\ UNCHANGED <<cpufreq, content, epp_files, configText, config, sessions,
                   queried, nEvents, phase, val, profile, idx, attempts, failures,
                   absorbed, processResult, runResult, parse>>

\* main, lines 317-321: derive the governor files; the emptiness test reads
\* epp_files again.
MainGovernorPaths ==
    /\ pc = "main_governors"
    /\ governor_files' = generate_cpu_core_gorvernor_paths(epp_files)
    /\ IF Len(epp_files) = 0
       THEN Exit(ExitFailure, "no_governor_files")
       ELSE pc' = "main_config" /\ UNCHANGED <<exitStatus, exitCause>>
    /\ UNCHANGED <<cpufreq, content, epp_files, configText, config, sessions,
                   queried, nEvents, phase, val, profile, idx, attempts, failures,
                   absorbed, processResult, runResult, parse>>

\* Faulty variant of MainReadConfig: a configuration that cannot be read or
\* parsed is logged and main goes on.
MainReadConfig_Continuing ==
    /\ pc = "main_config"
    /\ \E etc \in ConfigFileStates, local \in ConfigFileStates :
          LET f == config_file(etc, local)
              r == read_config(etc, local)
          IN /\ config' = r
             /\ configText' = IF f.exists /\ f.readable THEN Some(f.text) ELSE None
             /\ pc' = "main_loop"
             /\ UNCHANGED <<exitStatus, exitCause>>
    /\ UNCHANGED <<cpufreq, content, epp_files, governor_files, sessions, queried,
                   nEvents, phase, val, profile, idx, attempts, failures, absorbed,
                   processResult, runResult, parse>>

\* main, lines 322-335: read the configuration, exit when that fails, else
\* build the controller.
MainReadConfig ==
    /\ pc = "main_config"
    /\ \E etc \in ConfigFileStates, local \in ConfigFileStates :
          LET f == config_file(etc, local)
              r == read_config(etc, local)
          IN /\ config' = r
             /\ configText' = IF f.exists /\ f.readable THEN Some(f.text) ELSE None
             /\ IF IsErr(r)
                THEN Exit(ExitFailure, "config")
                ELSE pc' = "main_loop" /\ UNCHANGED <<exitStatus, exitCause>>
    /\ UNCHANGED <<cpufreq, content, epp_files, governor_files, sessions, queried,
                   nEvents, phase, val, profile, idx, attempts, failures, absorbed,
                   processResult, runResult, parse>>

\* main, lines 336-337: the supervisor loop calls controller.run().
MainLoop ==
    /\ pc = "main_loop"
    /\ sessions < MaxSessions
    /\ sessions' = sessions + 1
    /\ absorbed' = FALSE
    /\ phase' = "none"
    /\ pc' = "run_connect"
    /\ UNCHANGED <<cpufreq, content, epp_files, governor_files, configText, config,
                   queried, nEvents, val, profile, idx, attempts, failures,
                   processResult, runResult, exitStatus, exitCause, parse>>

\* Faulty variant of MainMatch: the process ends when a session ends with Ok.
MainMatch_ExitOnOk ==
    /\ pc = "main_match"
    /\ IF IsOk(runResult)
       THEN Exit(0, "finished")
       ELSE Exit(ExitFailure, "session_error")
    /\ UNCHANGED <<cpufreq, content, epp_files, governor_files, configText, config,
                   sessions, queried, nEvents, phase, val, profile, idx, attempts,
                   failures, absorbed, processResult, runResult, parse>>

\* main, lines 337-345: respawn after Ok, exit after an error.
MainMatch ==
    /\ pc = "main_match"
    /\ IF IsOk(runResult)
       THEN pc' = "main_loop" /\ UNCHANGED <<exitStatus, exitCause>>
       ELSE Exit(ExitFailure, "session_error")
    /\ UNCHANGED <<cpufreq, content, epp_files, governor_files, configText, config,
                   sessions, queried, nEvents, phase, val, profile, idx, attempts,
                   failures, absorbed, processResult, runResult, parse>>

\* run returns r to main.
ReturnFromRun(r) ==
    /\ runResult' = r
    /\ pc' = "main_match"

\* process_active_profile_changed(v) is called from `site`.
CallProcess(v, site) ==
    /\ val' = v
    /\ phase' = site
    /\ processResult' = None
    /\ pc' = "process"

\* run, lines 166-167: connect to the system bus and build the proxy.
RunConnect ==
    /\ pc = "run_connect"
    /\ \E ok \in BOOLEAN :
          IF ok THEN pc' = "run_query" /\ UNCHANGED runResult
          ELSE ReturnFromRun(Err("connection"))
    /\ UNCHANGED <<cpufreq, content, epp_files, governor_files, configText, config,
                   sessions, queried, nEvents, phase, val, profile, idx, attempts,
                   failures, absorbed, processResult, exitStatus, exitCause, parse>>

\* run, lines 168-171: query ActiveProfile and hand the value to
\* process_active_profile_changed.
RunActiveProfile ==
    /\ pc = "run_query"
    /\ queried' = TRUE
    /\ \/ /\ ReturnFromRun(Err("active_profile"))
          /\ UNCHANGED <<val, phase, processResult>>
       \/ \E v \in BusValues :
             /\ CallProcess(v, "initial")
             /\ UNCHANGED runResult
    /\ UNCHANGED <<cpufreq, content, epp_files, governor_files, configText, config,
                   sessions, nEvents, profile, idx, attempts, failures, absorbed,
                   exitStatus, exitCause, parse>>

\* Faulty variant of RunNextChange: the next change is taken while the EPP
\* fan-out of the previous one is still going on.
RunNextChange_Concurrent ==
    /\ pc \in {"run_next", "write_epp"}
    /\ \/ /\ ReturnFromRun(Ok(Unit))
          /\ UNCHANGED <<val, phase, processResult, nEvents>>
       \/ /\ nEvents < MaxEvents
          /\ nEvents' = nEvents + 1
          /\ \/ /\ ReturnFromRun(Err("get"))
                /\ UNCHANGED <<val, phase, processResult>>
             \/ \E v \in BusValues :
                   /\ CallProcess(v, "listen")
                   /\ UNCHANGED runResult
    /\ UNCHANGED <<cpufreq, content, epp_files, governor_files, configText, config,
                   sessions, queried, profile, idx, attempts, failures, absorbed,
                   exitStatus, exitCause, parse>>

\* Faulty variant of RunNextChange: a change whose value cannot be retrieved
\* is skipped and the loop goes on.
RunNextChange_Skipping ==
    /\ pc = "run_next"
    /\ \/ /\ ReturnFromRun(Ok(Unit))
          /\ UNCHANGED <<val, phase, processResult, nEvents>>
       \/ /\ nEvents < MaxEvents
          /\ nEvents' = nEvents + 1
          /\ \/ UNCHANGED <<pc, runResult, val, phase, processResult>>
             \/ \E v \in BusValues :
                   /\ CallProcess(v, "listen")
                   /\ UNCHANGED runResult
    /\ UNCHANGED <<cpufreq, content, epp_files, governor_files, configText, config,
                   sessions, queried, profile, idx, attempts, failures, absorbed,
                   exitStatus, exitCause, parse>>

\* run, lines 179-186: the next item of the change iterator: the sequence
\* ends, or a change arrives whose value cannot or can be retrieved.
RunNextChange ==
    /\ pc = "run_next"
    /\ \/ /\ ReturnFromRun(Ok(Unit))
          /\ UNCHANGED <<val, phase, processResult, nEvents>>
       \/ /\ nEvents < MaxEvents
          /\ nEvents' = nEvents + 1
          /\ \/ /\ ReturnFromRun(Err("get"))
                /\ UNCHANGED <<val, phase, processResult>>
             \/ \E v \in BusValues :
                   /\ CallProcess(v, "listen")
                   /\ UNCHANGED runResult
    /\ UNCHANGED <<cpufreq, content, epp_files, governor_files, configText, config,
                   sessions, queried, profile, idx, attempts, failures, absorbed,
                   exitStatus, exitCause, parse>>

\* Faulty variant of ProcessFailed: the loop of run propagates the error with
\* `?` as line 171 does, instead of logging it.
ProcessFailed_Propagating(e) ==
    /\ processResult' = Err(e)
    /\ ReturnFromRun(Err(e))
    /\ UNCHANGED absorbed

\* Faulty variant of ProcessFailed: line 171 logs the error as the loop does,
\* instead of propagating it.
ProcessFailed_Logging(e) ==
    /\ processResult' = Err(e)
    /\ pc' = "run_next"
    /\ absorbed' = TRUE
    /\ UNCHANGED runResult

\* process_active_profile_changed returns Err(e) to its caller: run's `?` at
\* line 171 returns it, run's `if let Err` at lines 181-183 logs it.
ProcessFailed(e) ==
    /\ processResult' = Err(e)
    /\ IF phase = "initial"
       THEN ReturnFromRun(Err(e)) /\ UNCHANGED absorbed
       ELSE /\ pc' = "run_next"
            /\ absorbed' = TRUE
            /\ UNCHANGED runResult

\* process_active_profile_changed returns Ok(()) to its caller: after line 171
\* run subscribes and enters the loop, after line 181 it stays in the loop.
ProcessSucceeded ==
    /\ processResult' = Ok(Unit)
    /\ pc' = "run_next"
    /\ UNCHANGED <<runResult, absorbed>>

\* Faulty variant of ProcessActiveProfileChanged: the governor fan-out of
\* line 198 is missing, so the EPP fan-out comes first.
ProcessActiveProfileChanged_EppFirst ==
    /\ pc = "process"
    /\ LET r == PPDPowerProfile_from_str(val) IN
       IF IsErr(r)
       THEN /\ ProcessFailed("Failure")
            /\ UNCHANGED <<profile, attempts, idx>>
       ELSE /\ profile' = Some(r[2])
            /\ attempts' = <<>>
            /\ idx' = 1
            /\ pc' = "write_epp"
            /\ UNCHANGED <<absorbed, processResult, runResult>>
    /\ UNCHANGED <<cpufreq, content, epp_files, governor_files, configText, config,
                   sessions, queried, nEvents, phase, val, failures, exitStatus,
                   exitCause, parse>>

\* process_active_profile_changed, lines 190-197: parse the value.
ProcessActiveProfileChanged ==
    /\ pc = "process"
    /\ LET r == PPDPowerProfile_from_str(val) IN
       IF IsErr(r)
       THEN /\ ProcessFailed("Failure")
            /\ UNCHANGED <<profile, attempts, idx>>
       ELSE /\ profile' = Some(r[2])
            /\ attempts' = <<>>
            /\ idx' = 1
            /\ pc' = "write_governor"
            /\ UNCHANGED <<absorbed, processResult, runResult>>
    /\ UNCHANGED <<cpufreq, content, epp_files, governor_files, configText, config,
                   sessions, queried, nEvents, phase, val, failures, exitStatus,
                   exitCause, parse>>

\* fs::write(file, token): the file holds the token if the write succeeds and
\* is left as it was if it fails; either way the attempt is recorded.
FsWrite(file, token, ok) ==
    /\ ok \/ failures < MaxFailures
    /\ failures' = IF ok THEN failures ELSE failures + 1
    /\ content' = IF ok THEN [content EXCEPT ![file] = token] ELSE content
    /\ attempts' = Append(attempts, [file |-> file, token |-> token, ok |-> ok])

\* Faulty variant of WriteGovernorToCore: a failed write is propagated with
\* `?` instead of being logged.
WriteGovernorToCore_Propagating ==
    /\ pc = "write_governor"
    /\ idx <= Len(governor_files)
    /\ \E ok \in BOOLEAN :
          /\ FsWrite(governor_files[idx],
                     ScalingGovernor_to_string(desired_governor(profile[1])), ok)
          /\ IF ok
             THEN /\ idx' = idx + 1
                  /\ UNCHANGED <<pc, absorbed, processResult, runResult>>
             ELSE /\ ProcessFailed("io")
                  /\ UNCHANGED idx
    /\ UNCHANGED <<cpufreq, epp_files, governor_files, configText, config,
                   sessions, queried, nEvents, phase, val, profile,
                   exitStatus, exitCause, parse>>

\* write_governor_to_all_cores, lines 157-161: one turn of the loop; a failed
\* write is logged and the loop goes on.
WriteGovernorToCore ==
    /\ pc = "write_governor"
    /\ idx <= Len(governor_files)
    /\ \E ok \in BOOLEAN :
          FsWrite(governor_files[idx],
                  ScalingGovernor_to_string(desired_governor(profile[1])), ok)
    /\ idx' = idx + 1
    /\ UNCHANGED <<pc, cpufreq, epp_files, governor_files, configText, config,
                   sessions, queried, nEvents, phase, val, profile, absorbed,
                   processResult, runResult, exitStatus, exitCause, parse>>

\* write_governor_to_all_cores returns; line 199 starts the EPP fan-out.
WriteGovernorDone ==
    /\ pc = "write_governor"
    /\ idx > Len(governor_files)
    /\ pc' = "write_epp"
    /\ idx' = 1
    /\ UNCHANGED <<cpufreq, content, epp_files, governor_files, configText, config,
                   sessions, queried, nEvents, phase, val, profile, attempts,
                   failures, absorbed, processResult, runResult, exitStatus,
                   exitCause, parse>>

\* Faulty variant of WriteEppToCore: a failed write is propagated with `?`
\* instead of being logged, which ends the fan-out.
WriteEppToCore_Propagating ==
    /\ pc = "write_epp"
    /\ idx <= Len(epp_files)
    /\ \E ok \in BOOLEAN :
          /\ FsWrite(epp_files[idx], EPP_to_string(desired_epp(profile[1])), ok)
          /\ IF ok
             THEN /\ idx' = idx + 1
                  /\ UNCHANGED <<pc, absorbed, processResult, runResult>>
             ELSE /\ ProcessFailed("io")
                  /\ UNCHANGED idx
    /\ UNCHANGED <<cpufreq, epp_files, governor_files, configText, config,
                   sessions, queried, nEvents, phase, val, profile,
                   exitStatus, exitCause, parse>>

\* Faulty variant of WriteEppToCore: a failed write is tried again on the
\* same file.
WriteEppToCore_Retrying ==
    /\ pc = "write_epp"
    /\ idx <= Len(epp_files)
    /\ \E ok \in BOOLEAN :
          /\ FsWrite(epp_files[idx], EPP_to_string(desired_epp(profile[1])), ok)
          /\ idx' = IF ok THEN idx + 1 ELSE idx
    /\ UNCHANGED <<pc, cpufreq, epp_files, governor_files, configText, config,
                   sessions, queried, nEvents, phase, val, profile, absorbed,
                   processResult, runResult, exitStatus, exitCause, parse>>

\* write_epp_to_all_cores, lines 140-144: one turn of the loop; a failed write
\* is logged and the loop goes on.
WriteEppToCore ==
    /\ pc = "write_epp"
    /\ idx <= Len(epp_files)
    /\ \E ok \in BOOLEAN :
          FsWrite(epp_files[idx], EPP_to_string(desired_epp(profile[1])), ok)
    /\ idx' = idx + 1
    /\ UNCHANGED <<pc, cpufreq, epp_files, governor_files, configText, config,
                   sessions, queried, nEvents, phase, val, profile, absorbed,
                   processResult, runResult, exitStatus, exitCause, parse>>

\* write_epp_to_all_cores returns and process_active_profile_changed
\* returns Ok(()), line 200.
WriteEppDone ==
    /\ pc = "write_epp"
    /\ idx > Len(epp_files)
    /\ ProcessSucceeded
    /\ UNCHANGED <<cpufreq, content, epp_files, governor_files, configText, config,
                   sessions, queried, nEvents, phase, val, profile, idx, attempts,
                   failures, exitStatus, exitCause, parse>>

Next ==
    \/ MainFindEppPaths
    \/ MainGovernorPaths
    \/ MainReadConfig
    \/ MainLoop
    \/ MainMatch
    \/ RunConnect
    \/ RunActiveProfile
    \/ RunNextChange
    \/ ProcessActiveProfileChanged
    \/ WriteGovernorToCore
    \/ WriteGovernorDone
    \/ WriteEppToCore
    \/ WriteEppDone

Spec == Init /\ [][Next]_vars

---------------------------------------------------------------------------
(* The locator on its own: main's first two steps on every directory        *)
(* listing of at most MaxEntries items.                                     *)

LocatorInit ==
    /\ \E dir \in {[readable |-> FALSE, entries |-> <<>>]}
                  \cup {[readable |-> TRUE, entries |-> q] : q \in Listings} :
          Start(dir)
    /\ parse = None

LocatorNext ==
    \/ MainFindEppPaths
    \/ MainGovernorPaths

SpecLocator == LocatorInit /\ [][LocatorNext]_vars

---------------------------------------------------------------------------
(* The string conversions on their own: from_str applied to a string, and   *)
(* to_string applied to a variant followed by from_str on what it printed.  *)

Kinds == {"PPDPowerProfile", "EnergyPerformancePreference", "ScalingGovernor"}

Variants(kind) ==
    CASE kind = "PPDPowerProfile"             -> PPDPowerProfile
      [] kind = "EnergyPerformancePreference" -> EnergyPerformancePreference
      [] kind = "ScalingGovernor"             -> ScalingGovernor

\* <kind as FromStr>::from_str
from_str(kind, input) ==
    CASE kind = "PPDPowerProfile"             -> PPDPowerProfile_from_str(input)
      [] kind = "EnergyPerformancePreference" -> EPP_from_str(input)
      [] kind = "ScalingGovernor"             -> ScalingGovernor_from_str(input)

\* <kind as Display>::to_string
to_string(kind, v) ==
    CASE kind = "PPDPowerProfile"             -> PPDPowerProfile_to_string(v)
      [] kind = "EnergyPerformancePreference" -> EPP_to_string(v)
      [] kind = "ScalingGovernor"             -> ScalingGovernor_to_string(v)

\* Strings handed to from_str: every canonical token and near misses of them.
Strings ==
    {"power-saver", "balanced", "performance", "default", "balance_performance",
     "balance_power", "power", "powersave",
     "unknown-value", "", "Performance", "PowerSaver", "power_saver", "power-save",
     "balance-power", "performance ", "schedutil", "BALANCED"}

ParseInit ==
    /\ Start([readable |-> FALSE, entries |-> <<>>])
    /\ \E kind \in Kinds :
          \/ \E v \in Variants(kind) :
                parse = [stage |-> "variant", kind |-> kind, origin |-> Some(v),
                         text |-> "", result |-> None]
          \/ \E t \in Strings :
                parse = [stage |-> "text", kind |-> kind, origin |-> None,
                         text |-> t, result |-> None]

\* to_string on the variant drawn
ParseToString ==
    /\ parse.stage = "variant"
    /\ parse' = [parse EXCEPT !.stage = "text",
                              !.text = to_string(parse.kind, parse.origin[1])]
    /\ UNCHANGED <<pc, cpufreq, content, epp_files, governor_files, configText,
                   config, sessions, queried, nEvents, phase, val, profile, idx,
                   attempts, failures, absorbed, processResult, runResult, exitStatus,
                   exitCause>>

\* from_str on the text drawn or printed
ParseFromStr ==
    /\ parse.stage = "text"
    /\ parse' = [parse EXCEPT !.stage = "parsed",
                              !.result = from_str(parse.kind, parse.text)]
    /\ UNCHANGED <<pc, cpufreq, content, epp_files, governor_files, configText,
                   config, sessions, queried, nEvents, phase, val, profile, idx,
                   attempts, failures, absorbed, processResult, runResult, exitStatus,
                   exitCause>>

ParseNext ==
    \/ ParseToString
    \/ ParseFromStr

SpecParse == ParseInit /\ [][ParseNext]_vars

---------------------------------------------------------------------------
(* Properties. *)

Range(q) == {q[i] : i \in DOMAIN q}

\* The strings that name a power profile on the bus.
Parseable(v) == v \in {"power-saver", "balanced", "performance"}

\* The files some attempt of the most recent fan-out was made on.
Attempted == {attempts[i].file : i \in DOMAIN attempts}

AllWritesSucceeded == \A i \in DOMAIN attempts : attempts[i].ok

\* C1. Fan-out isolation: while a parseable value is processed, every file
\* the loops have passed has had its write attempt whether or not earlier
\* writes failed; once the processing is over, every governor file and every
\* EPP file has had one and the event returned Ok.
C1_FanOutIsolation ==
    /\ pc = "write_governor" =>
          \A j \in 1..(idx - 1) : governor_files[j] \in Attempted
    /\ pc = "write_epp" =>
          /\ Range(governor_files) \subseteq Attempted
          /\ \A j \in 1..(idx - 1) : epp_files[j] \in Attempted
    /\ (Parseable(val) /\ pc \notin {"process", "write_governor", "write_epp"}) =>
          /\ processResult = Ok(Unit)
          /\ Range(governor_files) \cup Range(epp_files) \subseteq Attempted

\* Three EPP files of which the second could not be written, after a governor
\* file that could not be written either: the first and the third were written
\* and the event was handled.
C1_Witness ==
    /\ processResult = Ok(Unit)
    /\ Len(governor_files) = 2
    /\ Len(epp_files) = 3
    /\ Len(attempts) = 5
    /\ ~attempts[1].ok
    /\ attempts[3].ok /\ ~attempts[4].ok /\ attempts[5].ok
    /\ attempts[5].file = epp_files[3]
    /\ content[epp_files[3]] = attempts[5].token

\* The key of the configuration tables for a profile named on the bus.
ConfigKey(v) ==
    CASE v = "power-saver" -> "power_saver"
      [] v = "balanced"    -> "balanced"
      [] v = "performance" -> "performance"

\* Every discovered file holds the token the configuration text maps v to.
Applied(v) ==
    /\ \A i \in DOMAIN epp_files :
          content[epp_files[i]] = configText[1].epp[ConfigKey(v)]
    /\ \A i \in DOMAIN governor_files :
          content[governor_files[i]] = configText[1].scaling_governor[ConfigKey(v)]

\* C2. Session continuation: in the listen phase a value that does not parse
\* is logged and changes neither the session nor any file: run stays at the
\* head of its loop; a valid value that follows in the same session is
\* applied as usual.
C2_SessionContinuation ==
    /\ [][(pc = "process" /\ phase = "listen" /\ ~Parseable(val)) =>
            /\ pc' = "run_next"
            /\ absorbed'
            /\ UNCHANGED <<runResult, sessions, exitStatus, content, attempts>>]_vars
    /\ []((absorbed /\ phase = "listen" /\ processResult = Ok(Unit)
           /\ AllWritesSucceeded) => Applied(val))

\* A session that logged an unparseable notification has since applied a
\* valid one and waits for the next.
C2_Witness ==
    /\ absorbed
    /\ phase = "listen"
    /\ Parseable(val)
    /\ processResult = Ok(Unit)
    /\ AllWritesSucceeded
    /\ pc = "run_next"

\* C3. Supervisor respawn: when run returns Ok main goes round its loop and
\* calls run again, the process not exiting; when run returns an error the
\* process exits with a non-zero status; once exited nothing happens.
C3_SupervisorRespawn ==
    [][/\ (pc = "main_match" /\ IsOk(runResult)) =>
             (pc' = "main_loop" /\ exitStatus' = None /\ sessions' = sessions)
       /\ pc = "main_loop" =>
             (pc' = "run_connect" /\ exitStatus' = None /\ sessions' = sessions + 1)
       /\ (pc = "main_match" /\ IsErr(runResult)) =>
             /\ pc' = "exited"
             /\ exitStatus' # None /\ exitStatus' # Some(0)
             /\ sessions' = sessions
       /\ pc # "exited"]_vars

\* A second session was started after the first ended with Ok, and its
\* error ended the process.
C3_Witness ==
    /\ pc = "exited"
    /\ exitCause = "session_error"
    /\ sessions = 2
    /\ IsErr(runResult)
    /\ exitStatus = Some(1)

\* run has returned an error without having received a notification.
FailedAtStart ==
    /\ pc = "main_match"
    /\ IsErr(runResult)
    /\ phase # "listen"

\* C4. Fail-early at session start: a failed connection, a failed query and
\* an initial value that does not parse each make run return an error before
\* any notification is received, and main then exits; the same value as a
\* notification leaves run in its loop.
C4_FailEarly ==
    [][/\ (pc = "run_connect" /\ pc' # "run_query") => FailedAtStart'
       /\ (pc = "run_query" /\ pc' # "process") => FailedAtStart'
       /\ (pc = "process" /\ phase = "initial" /\ ~Parseable(val)) =>
             (FailedAtStart' /\ nEvents' = nEvents /\ content' = content)
       /\ (pc = "process" /\ phase = "listen" /\ ~Parseable(val)) =>
             (pc' = "run_next" /\ runResult' = runResult)
       /\ (pc = "main_match" /\ IsErr(runResult)) =>
             (pc' = "exited" /\ exitStatus' = Some(ExitFailure))]_vars

\* The first session got an unparseable initial value and the process exited.
C4_Witness ==
    /\ pc = "exited"
    /\ phase = "initial"
    /\ val = "unknown-value"
    /\ runResult = Err("Failure")
    /\ sessions = 1
    /\ nEvents = 0
    /\ exitStatus = Some(1)

\* C5. End-to-end apply: after a value was processed and every write
\* succeeded, every EPP file and every governor file holds exactly the token
\* the configuration text gives for that value, whatever they held before.
C5_EndToEndApply ==
    (processResult = Ok(Unit) /\ AllWritesSucceeded) => Applied(val)

\* The documented scenario: with power-saver mapped to power / powersave, a
\* notification of "power-saver" after an applied initial value leaves policy0
\* with exactly these tokens.
C5_Witness ==
    /\ configText = Some(TextA)
    /\ phase = "listen"
    /\ val = "power-saver"
    /\ processResult = Ok(Unit)
    /\ AllWritesSucceeded
    /\ failures = 0
    /\ content[<<Policy0, EPPFileName>>] = "power"
    /\ content[<<Policy0, GovernorFileName>>] = "powersave"

\* The canonical tokens of the three vocabularies.
Tokens(kind) ==
    CASE kind = "PPDPowerProfile" -> {"power-saver", "balanced", "performance"}
      [] kind = "EnergyPerformancePreference" ->
            {"default", "performance", "balance_performance", "balance_power", "power"}
      [] kind = "ScalingGovernor" -> {"powersave", "performance"}

\* C6. Parsing is rejecting, not defaulting: from_str of each vocabulary
\* returns Ok exactly for the canonical tokens of that vocabulary, with a
\* variant of it, and an error for every other string.
C6_ParsingRejects ==
    parse.stage = "parsed" =>
        IF parse.text \in Tokens(parse.kind)
        THEN IsOk(parse.result) /\ parse.result[2] \in Variants(parse.kind)
        ELSE parse.result = ParseErr(parse.text)

\* A token of another vocabulary was handed to the governor's from_str and
\* rejected.
C6_Witness ==
    /\ parse.stage = "parsed"
    /\ parse.kind = "ScalingGovernor"
    /\ parse.text = "power"
    /\ IsErr(parse.result)

\* C7. Round trip: parsing what to_string printed for a variant gives that
\* variant again.
C7_RoundTrip ==
    (parse.stage = "parsed" /\ parse.origin # None) =>
        parse.result = Ok(parse.origin[1])

\* PowerSaver was printed as "power-saver" and parsed back.
C7_Witness ==
    /\ parse.stage = "parsed"
    /\ parse.kind = "PPDPowerProfile"
    /\ parse.origin = Some("PowerSaver")
    /\ parse.text = "power-saver"
    /\ parse.result = Ok("PowerSaver")

\* The name is text and its first six characters spell `policy`.
HasPolicyName(n) ==
    /\ \A i \in DOMAIN n : n[i] # InvalidByte
    /\ Len(n) >= 6
    /\ <<n[1], n[2], n[3], n[4], n[5], n[6]>> = <<"p", "o", "l", "i", "c", "y">>

\* The entry is a policy directory that holds an EPP file.
Qualifies(e) == HasPolicyName(e[2]) /\ <<e[2], EPPFileName>> \in SysfsFiles

\* The EPP paths of the qualifying entries, in the order of the listing.
ExpectedEppPaths(entries) ==
    LET kept == SelectSeq(entries, Qualifies)
    IN [i \in 1..Len(kept) |-> <<kept[i][2], EPPFileName>>]

AllEntriesOk == \A i \in DOMAIN cpufreq.entries : IsOk(cpufreq.entries[i])

\* C8. Locator filtering: what find_cpu_core_epp_paths returns is, in the
\* order of the listing, exactly the EPP path of every entry whose name
\* starts with `policy` and which holds an EPP file.
C8_LocatorFiltering ==
    /\ pc \in {"main_governors", "main_config"} =>
          epp_files = ExpectedEppPaths(cpufreq.entries)
    /\ exitCause = "no_epp_files" =>
          ExpectedEppPaths(cpufreq.entries) = <<>>
    /\ (cpufreq.readable /\ AllEntriesOk /\ pc # "main_find"
        /\ ExpectedEppPaths(cpufreq.entries) # <<>>) =>
          epp_files = ExpectedEppPaths(cpufreq.entries)

\* The documented listing: policy0 with an EPP file, policy1 without one and
\* `other` with one give policy0's EPP path alone.
C8_Witness ==
    /\ cpufreq.entries = <<Ok(Policy0), Ok(Policy1), Ok(Other)>>
    /\ pc = "main_governors"
    /\ epp_files = << <<Policy0, EPPFileName>> >>

ExitedWithFailure ==
    /\ pc = "exited"
    /\ exitStatus # None
    /\ exitStatus # Some(0)

\* No session was started: no bus query was made and no file was written.
NoSession ==
    /\ sessions = 0
    /\ ~queried
    /\ attempts = <<>>
    /\ content = [f \in SysfsFiles |-> InitialContent(f)]

\* C9. Setup errors are fatal before the event loop: once main is past the
\* step concerned, an unreadable cpufreq directory, a listing without any
\* qualifying entry and a configuration that cannot be read or parsed each
\* mean that the process has exited with a non-zero status and never started
\* a session.
C9_SetupErrorsFatal ==
    /\ (~cpufreq.readable /\ pc # "main_find") =>
          (ExitedWithFailure /\ NoSession)
    /\ (cpufreq.readable /\ AllEntriesOk /\ pc # "main_find"
        /\ ExpectedEppPaths(cpufreq.entries) = <<>>) =>
          (ExitedWithFailure /\ NoSession)
    /\ (config # None /\ IsErr(config)) =>
          (ExitedWithFailure /\ NoSession)
    /\ (pc \notin {"main_find", "main_governors", "main_config"}
        /\ configText \notin {Some(TextA), Some(TextB)}) =>
          (ExitedWithFailure /\ NoSession)

\* EPP files were found, the configuration held an unknown token, and the
\* process exited before any session.
C9_Witness ==
    /\ pc = "exited"
    /\ exitCause = "config"
    /\ epp_files # <<>>
    /\ configText = Some(TextUnknownToken)
    /\ sessions = 0

\* C10. Exit status: the process never exits with status 0, and each fatal
\* error (unreadable sysfs root, no EPP file, unusable configuration, error
\* returned by a session) has ended it with status 1.
C10_ExitStatus ==
    /\ exitStatus # Some(0)
    /\ pc = "exited" <=> exitStatus # None
    /\ (~cpufreq.readable /\ pc # "main_find") => exitStatus = Some(1)
    /\ (cpufreq.readable /\ AllEntriesOk /\ pc # "main_find"
        /\ ExpectedEppPaths(cpufreq.entries) = <<>>) => exitStatus = Some(1)
    /\ (config # None /\ IsErr(config)) => exitStatus = Some(1)
    /\ (runResult # None /\ IsErr(runResult)) =>
          /\ pc \in {"main_match", "exited"}
          /\ pc = "exited" => exitStatus = Some(1)

\* The bus failed while the session was listening and the process exited
\* with status 1.
C10_Witness ==
    /\ pc = "exited"
    /\ phase = "listen"
    /\ runResult = Err("get")
    /\ exitStatus = Some(1)

IsEppAttempt(a) == a.file[2] = EPPFileName
IsGovernorAttempt(a) == a.file[2] = GovernorFileName

\* C11. Write ordering within one event: in the attempts of one fan-out, an
\* attempt on an EPP file comes only after every governor file has had its
\* attempt, and no attempt on a governor file comes after it.
C11_GovernorsBeforeEpp ==
    \A i \in DOMAIN attempts :
        IsEppAttempt(attempts[i]) =>
            /\ \A j \in DOMAIN governor_files :
                  \E k \in 1..(i - 1) : attempts[k].file = governor_files[j]
            /\ \A k \in DOMAIN attempts :
                  IsGovernorAttempt(attempts[k]) => k < i

\* Two governor attempts, the second of them failed, precede the first EPP
\* attempt.
C11_Witness ==
    /\ pc = "write_epp"
    /\ Len(attempts) = 3
    /\ IsGovernorAttempt(attempts[1])
    /\ IsGovernorAttempt(attempts[2]) /\ ~attempts[2].ok
    /\ IsEppAttempt(attempts[3])

\* The attempts of a whole fan-out: one on each governor file, then one on
\* each EPP file.
FanOutComplete ==
    [i \in DOMAIN attempts |-> attempts[i].file] = governor_files \o epp_files

\* The token the configuration text gives to a file of this kind for `v`.
MappedToken(f, v) ==
    IF f[2] = EPPFileName
    THEN configText[1].epp[ConfigKey(v)]
    ELSE configText[1].scaling_governor[ConfigKey(v)]

\* C12. Sequential event processing: a notification is received only at the
\* head of run's loop, when the fan-out of the value before it is complete;
\* while a fan-out goes on no value arrives, and all its attempts carry the
\* tokens of the one value being processed.
C12_SequentialEvents ==
    /\ [][nEvents' # nEvents => (pc = "run_next" /\ FanOutComplete)]_vars
    /\ [][(pc \in {"write_governor", "write_epp"}) =>
             (val' = val /\ nEvents' = nEvents /\ phase' = phase)]_vars
    /\ [](pc \in {"write_governor", "write_epp"} =>
             /\ Parseable(val)
             /\ \A i \in DOMAIN attempts :
                   attempts[i].token = MappedToken(attempts[i].file, val))

\* The second notification is being applied, part of its writes done.
C12_Witness ==
    /\ nEvents = 2
    /\ phase = "listen"
    /\ pc = "write_epp"
    /\ idx = 2
    /\ Len(attempts) = 3

\* run is in its listen loop: at the head of the loop or processing a
\* notification.
Listening ==
    \/ pc = "run_next"
    \/ phase = "listen" /\ pc \in {"process", "write_governor", "write_epp"}

\* C13. Session termination causes: from the listen loop run returns only at
\* the head of the loop, either Ok without having taken a change, or the
\* error of a change whose value could not be retrieved; that error is not
\* absorbed, run returns it and main exits.
C13_TerminationCauses ==
    /\ [][(Listening /\ pc' = "main_match") =>
             (/\ pc = "run_next"
              /\ \/ runResult' = Ok(Unit) /\ nEvents' = nEvents
                 \/ runResult' = Err("get") /\ nEvents' = nEvents + 1)]_vars
    /\ [][(pc = "run_next" /\ nEvents' = nEvents + 1) =>
             (\/ pc' = "process" /\ phase' = "listen"
              \/ pc' = "main_match" /\ runResult' = Err("get"))]_vars
    /\ [][(pc = "main_match" /\ runResult = Err("get")) =>
             (pc' = "exited" /\ exitStatus' = Some(ExitFailure))]_vars

\* A session that had absorbed an unparseable notification ended with the
\* error of a notification that could not be retrieved.
C13_Witness ==
    /\ pc = "main_match"
    /\ runResult = Err("get")
    /\ absorbed
    /\ nEvents = 2

\* The entries of the listing that could be read.
ReadableEntries == SelectSeq(cpufreq.entries, IsOk)

\* C14. Best-effort discovery: in a readable directory, an entry that cannot
\* be read, whose name is not valid text or whose EPP file is absent is
\* skipped, and the scan still returns the valid EPP paths of the remaining
\* entries. The scan does not do this for an entry that cannot be read:
\* `expect` (line 227) panics on it, so TLC finds this violated.
C14_BestEffortDiscovery ==
    (cpufreq.readable /\ pc # "main_find") =>
        /\ exitCause # "panic"
        /\ epp_files = ExpectedEppPaths(ReadableEntries)

\* The governor file next to an EPP path is one the directory holds.
HasGovernorSibling(e) == <<e[1], GovernorFileName>> \in SysfsFiles

ExpectedGovernorPaths(epps) ==
    LET kept == SelectSeq(epps, HasGovernorSibling)
    IN [i \in 1..Len(kept) |-> <<kept[i][1], GovernorFileName>>]

\* C15. Governor path derivation: the governor paths are, in the order of the
\* EPP paths, the `scaling_governor` sibling of each EPP path whose sibling
\* exists and nothing else; each lies in a directory that gave an EPP path,
\* and there are never more governor paths than EPP paths.
C15_GovernorDerivation ==
    pc = "main_config" =>
        /\ governor_files = ExpectedGovernorPaths(epp_files)
        /\ \A i \in DOMAIN governor_files :
              /\ governor_files[i][2] = GovernorFileName
              /\ \E j \in DOMAIN epp_files : epp_files[j][1] = governor_files[i][1]
        /\ Len(governor_files) <= Len(epp_files)

\* policy2 has an EPP file and no governor file: three EPP paths give two
\* governor paths, in the order of the listing.
C15_Witness ==
    /\ pc = "main_config"
    /\ cpufreq.entries = <<Ok(Policy3), Ok(Policy2), Ok(Policy0)>>
    /\ Len(epp_files) = 3
    /\ governor_files = << <<Policy3, GovernorFileName>>, <<Policy0, GovernorFileName>> >>

\* The files of the attempts, in the order they were made.
AttemptedFiles == [i \in DOMAIN attempts |-> attempts[i].file]

\* C16. One attempt per file per event, no retry: the attempts of a fan-out
\* are one on each governor file and one on each EPP file the loops have
\* passed, and on completion one on every discovered file; a failed attempt
\* leaves every file as it was, and a file changes only by a successful
\* attempt on it.
C16_OneAttemptPerFile ==
    /\ [](/\ pc = "write_governor" =>
                AttemptedFiles = SubSeq(governor_files, 1, idx - 1)
          /\ pc = "write_epp" =>
                AttemptedFiles = governor_files \o SubSeq(epp_files, 1, idx - 1)
          /\ (processResult # None /\ processResult = Ok(Unit)) =>
                AttemptedFiles = governor_files \o epp_files)
    /\ [][(attempts' # attempts /\ attempts' # <<>>) =>
             LET a == attempts'[Len(attempts')] IN
             /\ attempts' = Append(attempts, a)
             /\ content' = IF a.ok THEN [content EXCEPT ![a.file] = a.token]
                                   ELSE content]_vars
    /\ [][content' # content => attempts' # attempts]_vars

\* An event is over whose write to one file failed: the file still holds the
\* token an earlier event wrote to it, which is neither the token of this
\* event nor what the file held at the start.
C16_Witness ==
    /\ pc = "run_next"
    /\ phase = "listen"
    /\ processResult = Ok(Unit)
    /\ \E i \in DOMAIN attempts :
          /\ ~attempts[i].ok
          /\ content[attempts[i].file] # attempts[i].token
          /\ content[attempts[i].file] # InitialContent(attempts[i].file)

\* The errors of run that come from the event source: the bus connection,
\* the initial query, the retrieval of a notification.
SourceErrors == {"connection", "active_profile", "get"}

SessionFailed == runResult # None /\ IsErr(runResult)

\* C17 as stated. Propagation policy: a session ends with an error only when
\* the event source is broken; a malformed profile value or an unwritable
\* file never ends a session. A malformed initial value does end the session
\* (line 171), so TLC finds this violated.
C17_PropagationPolicy ==
    SessionFailed => runResult[2] \in SourceErrors

\* C17, amended. A session ends with an error only when the event source is
\* broken or the value of the initial query does not parse; a malformed value
\* received as a notification, or an unwritable file at any time, never ends
\* a session.
C17_PropagationPolicyAmended ==
    /\ [](SessionFailed =>
             \/ runResult[2] \in SourceErrors
             \/ runResult[2] = "Failure" /\ phase = "initial" /\ ~Parseable(val))
    /\ [][(pc \in {"write_governor", "write_epp"}) =>
             (/\ pc' \in {"write_governor", "write_epp", "run_next"}
              /\ UNCHANGED <<runResult, sessions, exitStatus>>)]_vars
    /\ [][(pc = "process" /\ phase = "listen") =>
             (/\ pc' \in {"write_governor", "run_next"}
              /\ UNCHANGED <<runResult, sessions, exitStatus>>)]_vars

\* A session that has logged a malformed notification and failed writes is
\* still at the head of its loop.
C17_Witness ==
    /\ pc = "run_next"
    /\ absorbed
    /\ ~Parseable(val)
    /\ failures > 0
    /\ \E i \in DOMAIN attempts : ~attempts[i].ok
    /\ runResult = None

C19_UnparseableNoWrite ==
    [][(pc = "process" /\ ~Parseable(val)) =>
          (/\ processResult' # None
           /\ IsErr(processResult')
           /\ pc' \notin {"write_governor", "write_epp"}
           /\ UNCHANGED <<content, attempts, failures, profile>>)]_vars

\* An unknown notification was handled after an earlier value had been
\* written: the files still hold what that value put there.
C19_Witness ==
    /\ pc = "run_next"
    /\ phase = "listen"
    /\ val = "unknown-value"
    /\ processResult = Err("Failure")
    /\ attempts # <<>>
    /\ \A i \in DOMAIN attempts :
          /\ attempts[i].ok
          /\ content[attempts[i].file] = attempts[i].token
          /\ content[attempts[i].file] # InitialContent(attempts[i].file)

\* The tokens the configuration text can give to a file of this kind.
MappedRange(f) ==
    {MappedToken(f, v) : v \in {"power-saver", "balanced", "performance"}}

\* C20. Convergence: whenever run waits for a notification, every file whose
\* most recent attempt succeeded holds the token the configuration gives for
\* the most recent value that parsed, and every discovered file holds what it
\* held at the start or a token the configuration maps to for its kind.
C20_Convergence ==
    pc = "run_next" =>
        /\ profile # None
        /\ \A i \in DOMAIN attempts :
              attempts[i].ok =>
                  content[attempts[i].file] =
                      MappedToken(attempts[i].file,
                                  PPDPowerProfile_to_string(profile[1]))
        /\ Range(governor_files) \cup Range(epp_files) \subseteq Attempted
        /\ \A f \in Range(governor_files) \cup Range(epp_files) :
              \/ content[f] = InitialContent(f)
              \/ content[f] \in MappedRange(f)

\* In the second session, after a logged notification, one file could not be
\* written and holds the token of an earlier value while another holds the
\* token of the latest one.
C20_Witness ==
    /\ pc = "run_next"
    /\ sessions = 2
    /\ absorbed
    /\ \E i, j \in DOMAIN attempts :
          /\ ~attempts[i].ok
          /\ content[attempts[i].file] # attempts[i].token
          /\ content[attempts[i].file] # InitialContent(attempts[i].file)
          /\ attempts[j].ok
          /\ content[attempts[j].file] = attempts[j].token

====
